---------------------------- MODULE Spec2Model ----------------------------
(***************************************************************************)
(* Model of libinput-gestures-qt (src/main.py): the configuration file of  *)
(* libinput-gestures and the handlers that read, repair and rewrite it.    *)
(*                                                                         *)
(* Python strings are TLA+ strings (Len, SubSeq and \o work on them), a    *)
(* list of strings is a sequence of strings.  The persisted file is one    *)
(* string, exactly the bytes write_config leaves on disk.                  *)
(***************************************************************************)
EXTENDS Integers, Sequences, FiniteSets, TLC

(***************************************************************************)
(* Bounds of the model.                                                    *)
(***************************************************************************)
\* longest initial configuration file, in lines
MaxLines == 2
\* number of edits (save / delete) in one behaviour
MaxOps == 2
\* largest value dialled on the fingers spin box
MaxFingers == 3

(***************************************************************************)
(* Python string primitives.                                               *)
(***************************************************************************)
\* s[i] (1-based), as a one-character string
CharAt(s, i) == SubSeq(s, i, i)

\* str.startswith
startswith(s, p) == Len(s) >= Len(p) /\ SubSeq(s, 1, Len(p)) = p

\* the characters str.split() treats as separators (those of the model's alphabet)
IsSpace(c) == c \in {" ", "\t", "\n"}

\* the k-th smallest element of a set of integers
Kth(S, k) == CHOOSE i \in S : Cardinality({j \in S : j < i}) = k - 1

\* the pieces of s, in order: piece k runs from the k-th position of first to
\* the k-th position of last
Pieces(s, first, last) ==
    [k \in 1..Cardinality(first) |-> SubSeq(s, Kth(first, k), Kth(last, k))]

\* str.split(): the maximal runs of non-whitespace characters of s
split(s) ==
    LET word == {i \in 1..Len(s) : ~IsSpace(CharAt(s, i))}
    IN  Pieces(s, {i \in word : i - 1 \notin word}, {i \in word : i + 1 \notin word})

\* file.readlines(): the lines of the text, each with its "\n" when it has one
readlines(s) ==
    LET nl == {i \in 1..Len(s) : CharAt(s, i) = "\n"}
    IN  Pieces(s, {i \in 1..Len(s) : i = 1 \/ i - 1 \in nl}, (nl \cup {Len(s)}) \ {0})

RECURSIVE join(_, _)
\* sep.join(items)
join(sep, items) ==
    IF Len(items) = 0 THEN ""
    ELSE IF Len(items) = 1 THEN items[1]
    ELSE LET h == Len(items) \div 2
         IN  join(sep, SubSeq(items, 1, h)) \o sep
             \o join(sep, SubSeq(items, h + 1, Len(items)))

\* iterating a str yields its characters
chars(s) == [i \in 1..Len(s) |-> CharAt(s, i)]

\* str(n) for the integers a spin box holds
Digit(d) == CharAt("0123456789", d + 1)
str(n) == IF n < 10 THEN Digit(n) ELSE Digit(n \div 10) \o Digit(n % 10)

\* c.lower() for one character
lower_char(c) ==
    LET hit == {k \in 1..26 : CharAt("ABCDEFGHIJKLMNOPQRSTUVWXYZ", k) = c}
    IN  IF hit = {} THEN c ELSE CharAt("abcdefghijklmnopqrstuvwxyz", CHOOSE k \in hit : TRUE)

\* str.lower
lower(s) == join("", [i \in 1..Len(s) |-> lower_char(CharAt(s, i))])

\* str.split(d) with a one-character delimiter: the pieces between the
\* delimiters, empty ones included
split_on(s, d) ==
    LET cuts == {i \in 1..Len(s) : CharAt(s, i) = d}
        n == Cardinality(cuts)
        bound(k) == IF k = 0 THEN 0 ELSE IF k = n + 1 THEN Len(s) + 1 ELSE Kth(cuts, k)
    IN  IF n = 0 THEN <<s>>
        ELSE [k \in 1..n + 1 |-> SubSeq(s, bound(k - 1) + 1, bound(k) - 1)]

\* line.replace('\t', ' '): the pieces between the tabs, joined by spaces
replace_tab(s) == join(" ", split_on(s, "\t"))

(***************************************************************************)
(* The translation tables.                                                 *)
(***************************************************************************)
actions_mapping ==
    [l \in {"Swipe Up", "Swipe Down", "Swipe Left", "Swipe LeftUp", "Swipe LeftDown",
            "Swipe Right", "Swipe RightUp", "Swipe RightDown",
            "Pinch In", "Pinch Out", "Pinch Clockwise", "Pinch Anticlockwise"} |->
       CASE l = "Swipe Up" -> "gesture swipe up"
         [] l = "Swipe Down" -> "gesture swipe down"
         [] l = "Swipe Left" -> "gesture swipe left"
         [] l = "Swipe LeftUp" -> "gesture swipe left_up"
         [] l = "Swipe LeftDown" -> "gesture swipe  left_down"
         [] l = "Swipe Right" -> "gesture swipe right"
         [] l = "Swipe RightUp" -> "gesture swipe right_up"
         [] l = "Swipe RightDown" -> "gesture swipe right_down"
         [] l = "Pinch In" -> "gesture pinch in"
         [] l = "Pinch Out" -> "gesture pinch out"
         [] l = "Pinch Clockwise" -> "gesture pinch clockwise"
         [] l = "Pinch Anticlockwise" -> "gesture pinch anticlockwise"]

reversed_mapping ==
    [t \in {"gesture swipe up", "gesture swipe down", "gesture swipe left",
            "gesture swipe left_up", "gesture swipe left_down", "gesture swipe right",
            "gesture swipe right_up", "gesture swipe right_down", "gesture pinch in",
            "gesture pinch out", "gesture pinch clockwise",
            "gesture pinch anticlockwise"} |->
       CASE t = "gesture swipe up" -> "Swipe Up"
         [] t = "gesture swipe down" -> "Swipe Down"
         [] t = "gesture swipe left" -> "Swipe Left"
         [] t = "gesture swipe left_up" -> "Swipe LeftUp"
         [] t = "gesture swipe left_down" -> "Swipe LeftDown"
         [] t = "gesture swipe right" -> "Swipe Right"
         [] t = "gesture swipe right_up" -> "Swipe RightUp"
         [] t = "gesture swipe right_down" -> "Swipe RightDown"
         [] t = "gesture pinch in" -> "Pinch In"
         [] t = "gesture pinch out" -> "Pinch Out"
         [] t = "gesture pinch clockwise" -> "Pinch Clockwise"
         [] t = "gesture pinch anticlockwise" -> "Pinch Anticlockwise"]

keys_mapping ==
    [k \in {"meta", "pgdown", "pgup", "right", "left", "up", "down", "f1", "f2", "f3",
            "f4", "f5", "f6", "f7", "f8", "f9", "f10", "f11", "f12"} |->
       CASE k = "meta" -> "super"
         [] k = "pgdown" -> "Page_Down"
         [] k = "pgup" -> "Page_Up"
         [] k = "right" -> "Right"
         [] k = "left" -> "Left"
         [] k = "up" -> "Up"
         [] k = "down" -> "Down"
         [] OTHER -> "F" \o SubSeq(k, 2, Len(k))]

\* find_key_combo: every '+'-separated key lower-cased and looked up
find_key_combo(qt_key_combo) ==
    LET keys == split_on(qt_key_combo, "+")
        one(k) == IF lower(k) \in DOMAIN keys_mapping THEN keys_mapping[lower(k)]
                  ELSE lower(k)
    IN  join("+", [i \in 1..Len(keys) |-> one(keys[i])])


(***************************************************************************)
(* The configuration store.                                                *)
(***************************************************************************)
\* read_config: the lines of the file ('' when there is no file: no lines)
read_config(text) == readlines(text)

\* write_config with the items joined by a space instead of by nothing
write_config_spaced(new_conf) == join(" ", new_conf)

\* write_config(new_conf): the file becomes ''.join(new_conf)
write_config(new_conf) == join("", new_conf)

(***************************************************************************)
(* fix_config.                                                             *)
(***************************************************************************)
\* What the loop body of fix_config does with one line: "keep" (appended to
\* fixed_conf), "drop", or "raise" (an IndexError leaves the function).
fix_line(line) ==
    IF startswith(line, "#") THEN "keep"
    ELSE LET splitted == split(replace_tab(line)) IN
         IF Len(splitted) < 1 THEN "raise"
         ELSE IF splitted[1] \notin {"gesture", "device", "swipe_threshold"} THEN "drop"
         ELSE IF splitted[1] = "gesture"
              THEN IF Len(splitted) < 5 THEN "raise"
                   ELSE IF splitted[5] = "xdotool"
                        THEN IF Len(splitted) < 6 THEN "raise"
                             ELSE IF splitted[6] = "key" /\ Len(splitted) = 7
                                  THEN "keep" ELSE "drop"
                        ELSE "keep"
              ELSE IF Len(splitted) = 2 THEN "keep" ELSE "drop"

\* fix_config on a file holding text: raised, and the text the file holds afterwards
\* (an exception leaves the loop before write_config, so the file is untouched)
fix_config(text) ==
    LET conf == read_config(text)
        fixed_conf == SelectSeq(conf, LAMBDA line : fix_line(line) = "keep")
    IN  IF \E i \in 1..Len(conf) : fix_line(conf[i]) = "raise"
        THEN [raised |-> TRUE, text |-> text]
        ELSE [raised |-> FALSE, text |-> write_config(chars(join("", fixed_conf)))]

(***************************************************************************)
(* GesturesApp.prepare_config_for_displaying.                              *)
(***************************************************************************)
\* One line that starts with 'gesture': the row appended to the five lists, or
\* the exception (KeyError of reversed_mapping, IndexError of splitted[i]).
parse_line(line) ==
    LET splitted == split(replace_tab(line))
        action == splitted[1] \o " " \o splitted[2] \o " " \o splitted[3]
        fail == [err |-> TRUE, row |-> <<>>]
    IN  IF Len(splitted) < 3 THEN fail
        ELSE IF action \notin DOMAIN reversed_mapping THEN fail
        ELSE IF Len(splitted) < 5 THEN fail
        ELSE IF splitted[5] = "xdotool" /\ Len(splitted) < 6 THEN fail
        ELSE IF splitted[5] = "xdotool" /\ splitted[6] = "key"
             THEN IF Len(splitted) < 7 THEN fail
                  ELSE [err |-> FALSE,
                        row |-> [gesture |-> reversed_mapping[action],
                                 fingers |-> splitted[4],
                                 action |-> "shortcut",
                                 shortcut |-> splitted[7],
                                 button |-> action]]
             ELSE [err |-> FALSE,
                   row |-> [gesture |-> reversed_mapping[action],
                            fingers |-> splitted[4],
                            action |-> "command",
                            shortcut |-> join(" ", SubSeq(splitted, 5, Len(splitted))),
                            button |-> action]]

RECURSIVE parse_from(_, _, _)
parse_from(conf, i, rows) ==
    IF i > Len(conf) THEN [err |-> FALSE, rows |-> rows]
    ELSE IF ~startswith(conf[i], "gesture") THEN parse_from(conf, i + 1, rows)
    ELSE LET r == parse_line(conf[i]) IN
         IF r.err THEN [err |-> TRUE, rows |-> rows]
         ELSE parse_from(conf, i + 1, Append(rows, r.row))

\* err: an exception left the loop; rows: the rows (gestures[i], fingers[i],
\* actions[i], shortcuts[i], buttons[i]) completed by then
prepare_config_for_displaying(text) == parse_from(read_config(text), 1, <<>>)

\* display_config up to its dialog: the window is shown when parsing succeeds,
\* the "Fix it?" question is open when it raised
display_config(text) ==
    IF prepare_config_for_displaying(text).err THEN "asking" ELSE "shown"

(***************************************************************************)
(* The edits.                                                              *)
(***************************************************************************)
\* EditGestures.action_chosen: the token of the chosen label, and the floor
\* the spin box gets
action_chosen(text) == actions_mapping[text]
MinFingers(text) ==
    IF \E i \in 1..Len(text) - 4 : SubSeq(text, i, i + 4) = "Pinch" THEN 2 ELSE 3

\* EditGestures.shortcut_chosen / command_chosen: the text kept in self.shortcut
shortcut_chosen(text) == "xdotool key " \o find_key_combo(text)
command_chosen(text) == text

\* EditGestures.save_changes, lines 507-513: the text written
save_changes(text, action, fingers, shortcut) ==
    LET conf == read_config(text)
        new_conf == SelectSeq(conf, LAMBDA line :
                        ~startswith(replace_tab(line), action \o " " \o str(fingers)))
    IN  write_config(Append(new_conf,
                            action \o "\t" \o str(fingers) \o " " \o shortcut \o "\n"))

\* GesturesApp.delete_entry, lines 414-416: the text written
delete_entry(text, accessibleName) ==
    write_config(SelectSeq(read_config(text),
                           LAMBDA line : ~startswith(line, accessibleName)))

(***************************************************************************)
(* The inputs.                                                             *)
(***************************************************************************)
\* lines the initial file is made of (without their newline)
Catalogue ==
    {"# c",
     "device touchpad",
     "device touchpad extra",
     "",
     "foo bar",
     "gesture swipe up 3 ls",
     "gesture swipe up 33 ls",
     "gesture swipe\tup 3 ls",
     "gesture swipe left_down 3 ls",
     "gesture swipe left_up 3 xdotool key F1",
     "gesture swipe up 3 xdotool key F1 F2",
     "gesture swipe sideways 3 xdotool key F1",
     "gesture swipe up three ls",
     "gesture swipe up 3"}

\* the initial files: up to MaxLines lines, the last with or without its newline
InitFiles ==
    {join("\n", ls) \o nl :
        ls \in UNION {[1..n -> Catalogue] : n \in 0..MaxLines}, nl \in {"", "\n"}}

\* the entries of the action menu the model chooses among: a plain swipe, a
\* swipe whose token other tokens extend, and two of those
Labels == {"Swipe Up", "Swipe Left", "Swipe LeftUp", "Swipe LeftDown"}
\* key sequences typed into the QKeySequenceEdit
KeySequences == {"Meta+PgDown"}
\* texts typed into the command line edit
CommandTexts == {"", "a  b", "xdotool key F1"}

(***************************************************************************)
(* The state.                                                              *)
(***************************************************************************)
VARIABLES
    file,   \* the text of ~/.config/libinput-gestures.conf
    app,    \* "stopped" | "shown" | "asking" | "crashed"
    exc,    \* the function whose exception ended the program, "" when none did
    op,     \* the last operation that wrote the file
    arg,    \* its input
    pre,    \* the file before it
    pop,    \* the operation that wrote the file before op
    parg,   \* its input
    orig,   \* the file the behaviour started with
    nops    \* number of edits so far

vars == <<file, app, exc, op, arg, pre, pop, parg, orig, nops>>

NoArg == [gesture |-> "", fingers |-> "", action |-> "", shortcut |-> "", button |-> ""]

Init ==
    /\ file \in InitFiles
    /\ app = "stopped"
    /\ exc = ""
    /\ op = "none"
    /\ arg = NoArg
    /\ pre = file
    /\ pop = "none"
    /\ parg = NoArg
    /\ orig = file
    /\ nops = 0

\* the bookkeeping of an operation that wrote the file
Wrote(name, input) ==
    /\ op' = name
    /\ arg' = input
    /\ pre' = file
    /\ pop' = op
    /\ parg' = arg

\* main(): GesturesApp.__init__ calls display_config
Start ==
    /\ app \in {"stopped", "crashed"}
    /\ app' = display_config(file)
    /\ exc' = ""
    /\ UNCHANGED <<file, op, arg, pre, pop, parg, orig, nops>>

\* the user answers Yes to "Fix it?": fix_config, then the second
\* prepare_config_for_displaying, neither inside a try
FixYes ==
    /\ app = "asking"
    /\ LET r == fix_config(file) IN
       IF r.raised
       THEN /\ app' = "crashed"
            /\ exc' = "fix_config"
            /\ UNCHANGED <<file, op, arg, pre, pop, parg>>
       ELSE /\ file' = r.text
            /\ Wrote("repair", NoArg)
            /\ IF prepare_config_for_displaying(r.text).err
               THEN app' = "crashed" /\ exc' = "prepare_config_for_displaying"
               ELSE app' = "shown" /\ exc' = ""
    /\ UNCHANGED <<orig, nops>>

\* the user answers No: sys.exit()
FixNo ==
    /\ app = "asking"
    /\ app' = "stopped"
    /\ UNCHANGED <<file, exc, op, arg, pre, pop, parg, orig, nops>>

\* EditGestures.save_changes with the label, finger count and action text the
\* user chose in the window (action_chosen, fingers_chosen, shortcut_chosen or
\* command_chosen), then parent.display_config(refresh=True)
SaveChanges(label, fingers, kind, text) ==
    /\ app = "shown"
    /\ nops < MaxOps
    /\ LET action == action_chosen(label)
           shortcut == IF kind = "shortcut" THEN shortcut_chosen(text)
                       ELSE command_chosen(text)
       IN  IF shortcut # ""
           THEN /\ file' = save_changes(file, action, fingers, shortcut)
                /\ Wrote("upsert", [gesture |-> label, fingers |-> str(fingers),
                                    action |-> kind,
                                    shortcut |-> IF kind = "shortcut"
                                                 THEN find_key_combo(text) ELSE text,
                                    button |-> action])
                /\ app' = display_config(file')
                /\ nops' = nops + 1
                /\ UNCHANGED <<exc, orig>>
           ELSE UNCHANGED vars

\* GesturesApp.delete_entry from the Delete button of row i, answered Yes, then
\* display_config(refresh=True).  The buttons are those of the rows parsed from
\* the file at the last display_config (sort_config only reorders the rows).
DeleteEntry(i) ==
    /\ app = "shown"
    /\ nops < MaxOps
    /\ LET rows == prepare_config_for_displaying(file).rows IN
       /\ i \in 1..Len(rows)
       /\ file' = delete_entry(file, rows[i].button)
       /\ Wrote("delete", rows[i])
    /\ app' = display_config(file')
    /\ nops' = nops + 1
    /\ UNCHANGED <<exc, orig>>

Next ==
    \/ Start
    \/ FixYes
    \/ FixNo
    \/ \E label \in Labels, fingers \in 2..MaxFingers :
          /\ fingers >= MinFingers(label)
          /\ \/ \E text \in KeySequences : SaveChanges(label, fingers, "shortcut", text)
             \/ \E text \in CommandTexts : SaveChanges(label, fingers, "command", text)
    \/ \E i \in 1..MaxLines + MaxOps : DeleteEntry(i)

Spec == Init /\ [][Next]_vars

\* the display and repair flow alone: no edits
NextRepair == Start \/ FixYes \/ FixNo

SpecRepair == Init /\ [][NextRepair]_vars

(***************************************************************************)
(* The vocabulary of the claims: the Line Grammar and the identity key.    *)
(***************************************************************************)
Tokens(line) == split(replace_tab(line))

IsComment(line) == startswith(line, "#")

IsDirective(line) ==
    Len(Tokens(line)) >= 1 /\ Tokens(line)[1] \in {"device", "swipe_threshold"}

IsBindingLine(line) == Len(Tokens(line)) >= 1 /\ Tokens(line)[1] = "gesture"

IsInteger(t) == Len(t) >= 1 /\ \A i \in 1..Len(t) : \E d \in 0..9 : CharAt(t, i) = Digit(d)

\* well-formed by the Line Grammar
WellFormedLine(line) ==
    LET t == Tokens(line) IN
    \/ IsComment(line)
    \/ IsDirective(line) /\ Len(t) = 2
    \/ /\ IsBindingLine(line)
       /\ Len(t) >= 5
       /\ join(" ", SubSeq(t, 1, 3)) \in DOMAIN reversed_mapping
       /\ IsInteger(t[4])
       /\ t[5] = "xdotool" => (Len(t) = 7 /\ t[6] = "key")

\* a Comment or a well-formed Directive
IsPassthrough(line) == IsComment(line) \/ (IsDirective(line) /\ Len(Tokens(line)) = 2)

\* the line binds the gesture with this token, for this finger count
LineHasKey(line, token, fingers) ==
    LET t == Tokens(line) IN
    /\ IsBindingLine(line)
    /\ Len(t) >= 4
    /\ join(" ", SubSeq(t, 1, 3)) = join(" ", split(token))
    /\ t[4] = fingers

\* "<token>\t<fingerCount> <actionText>\n"
Serialized(b) ==
    b.button \o "\t" \o b.fingers \o " "
    \o (IF b.action = "shortcut" THEN "xdotool key " \o b.shortcut ELSE b.shortcut) \o "\n"

RECURSIVE IsSubseq(_, _)
\* a can be obtained from b by deleting elements
IsSubseq(a, b) ==
    IF a = <<>> THEN TRUE
    ELSE IF b = <<>> THEN FALSE
    ELSE IF a[1] = b[1] THEN IsSubseq(Tail(a), Tail(b))
    ELSE IsSubseq(a, Tail(b))

(***************************************************************************)
(* The claims.                                                             *)
(***************************************************************************)
\* C1: after upsert(b) followed by upsert(b') with the same identity key
\* (label, finger count), the persisted file parses to exactly one binding with
\* that key, and that binding is b'.
C1_UpsertIdentity ==
    (op = "upsert" /\ pop = "upsert"
        /\ arg.gesture = parg.gesture /\ arg.fingers = parg.fingers) =>
    LET p == prepare_config_for_displaying(file)
        same == SelectSeq(p.rows, LAMBDA r :
                    r.gesture = arg.gesture /\ r.fingers = arg.fingers)
    IN  /\ ~p.err
        /\ Len(same) = 1
        /\ same[1].action = arg.action
        /\ same[1].shortcut = arg.shortcut

\* C2: after delete(b), no binding line with b's gesture token and finger count
\* remains in the persisted file.
C2_DeleteComplete ==
    op = "delete" =>
    \A i \in 1..Len(readlines(file)) :
        ~LineHasKey(readlines(file)[i], arg.button, arg.fingers)

\* C3: delete(b) removes only the binding lines with b's token and finger
\* count: every other line is persisted unchanged and in its original order.
C3_DeleteFrame ==
    op = "delete" =>
    SelectSeq(readlines(file), LAMBDA l : ~LineHasKey(l, arg.button, arg.fingers))
        = SelectSeq(readlines(pre), LAMBDA l : ~LineHasKey(l, arg.button, arg.fingers))

\* C4: after any sequence of upsert, delete and repair, every Comment line and
\* every well-formed Directive line of the original file is still a line of the
\* persisted file, unchanged and in the same relative order.
C4_Passthrough ==
    IsSubseq(SelectSeq(readlines(orig), IsPassthrough), readlines(file))

\* C5: if the file contains any Malformed line, parsing returns an error: the
\* window is never shown with bindings parsed from such a file.
C5_FailFast ==
    (\E i \in 1..Len(readlines(file)) : ~WellFormedLine(readlines(file)[i]))
        => app # "shown"

\* C6: after repair has completed, every line of the persisted file is
\* well-formed by the Line Grammar, and parsing it succeeds.
C6_RepairWellFormed ==
    op = "repair" =>
    /\ \A i \in 1..Len(readlines(file)) : WellFormedLine(readlines(file)[i])
    /\ ~prepare_config_for_displaying(file).err

\* C7: running repair again on the file a repair has persisted leaves that file
\* exactly as it is: repair(repair(x)) = repair(x).
C7_RepairIdempotent ==
    op = "repair" => fix_config(file).text = file

\* a repair that dropped a line and kept another
C7_Witness == op = "repair" /\ file # pre /\ file # ""

\* C8: parsing the single-line file produced by serializing a binding b yields
\* exactly one binding with b's label, token, finger count, action kind and
\* action value.
C8_RoundTrip ==
    (op = "upsert" /\ pre = "") =>
    /\ file = Serialized(arg)
    /\ prepare_config_for_displaying(file) = [err |-> FALSE, rows |-> <<arg>>]

\* C9: the label->token table and the token->label table are exact inverses:
\* reversed_mapping[actions_mapping[L]] = L for every label L and
\* actions_mapping[reversed_mapping[T]] = T for every token T.
\* (The tables never change, so this is stated of every state the window is in.)
C9_LabelRoundTrip ==
    app \in {"stopped", "shown", "asking", "crashed"} =>
    /\ \A l \in DOMAIN actions_mapping :
          /\ actions_mapping[l] \in DOMAIN reversed_mapping
          /\ reversed_mapping[actions_mapping[l]] = l
    /\ \A t \in DOMAIN reversed_mapping :
          /\ reversed_mapping[t] \in DOMAIN actions_mapping
          /\ actions_mapping[reversed_mapping[t]] = t

\* C10: after upsert(b), the persisted file is the non-binding lines in their
\* original order, then every earlier binding line whose identity key differs
\* from b's, unchanged, then b's serialized line as the last line.
C10_UpsertLayout ==
    op = "upsert" =>
    readlines(file) =
        SelectSeq(readlines(pre), LAMBDA l : ~IsBindingLine(l))
        \o SelectSeq(readlines(pre), LAMBDA l :
                IsBindingLine(l) /\ ~LineHasKey(l, arg.button, arg.fingers))
        \o <<Serialized(arg)>>

\* C11: repair runs to completion on any file: it never ends with an error that
\* leaves the file unrepaired, and the file it persists is the earlier file
\* without its Malformed lines.
C11_RepairCompletes ==
    /\ exc # "fix_config"
    /\ op = "repair" => readlines(file) = SelectSeq(readlines(pre), WellFormedLine)

=============================================================================
